---- MODULE Spec2Model ----
(***************************************************************************)
(* Model of the glcd graphics class (trunk/glcd/glcd.cpp): the high level  *)
(* drawing routines over a page-addressed monochrome pixel memory.         *)
(*                                                                         *)
(* Pixel memory is a WIDTH x HEIGHT grid stored as HEIGHT/8 pages of WIDTH *)
(* bytes; bit b of byte (x, page) is pixel (x, page*8 + b).  Every routine *)
(* runs to completion in the caller's thread, so each call is one step.    *)
(* The canvas is scaled down from the 128 x 64 panel to keep the state     *)
(* space enumerable; all arithmetic keeps the C widths (uint8_t, int8_t).  *)
(***************************************************************************)
EXTENDS Integers, Sequences, FiniteSets, TLC

VARIABLES
    mem,        \* pixel memory: [Cols \X Pages -> 0..255]
    Coord,      \* device cursor [x, y] left by the last GotoXY / WriteData
    Inverted,   \* glcd::Inverted, the display-mode flag
    req,        \* the call under test, drawn at start-up
    last,       \* the call executed by the last step (NoCall before any)
    pre,        \* pixel memory before the last call
    start,      \* [mem, Inverted] at start-up
    trace       \* what the last call did: GotoXY y's, read/write counts, painted pixels

vars == <<mem, Coord, Inverted, req, last, pre, start, trace>>

----------------------------------------------------------------------------
(* Geometry of the (scaled) panel.                                         *)

DISPLAY_WIDTH == 7
NumPages == 3
DISPLAY_HEIGHT == NumPages * 8

BLACK == 255
WHITE == 0
NON_INVERTED == 0
INVERTED == 1

Cols == 0 .. DISPLAY_WIDTH - 1
Rows == 0 .. DISPLAY_HEIGHT - 1
Pages == 0 .. NumPages - 1
Cells == Cols \X Pages
Colors == {BLACK, WHITE}

----------------------------------------------------------------------------
(* C integer arithmetic on bytes.                                          *)

U8(v) == v % 256
S8(v) == ((v + 128) % 256) - 128
Pow2(n) == 2 ^ n
Bit(b, i) == (b \div Pow2(i)) % 2
Not8(b) == 255 - b
Shl8(b, n) == (b * Pow2(n)) % 256
Shr8(b, n) == b \div Pow2(n)

RECURSIVE AndFrom(_, _, _)
AndFrom(a, b, i) ==
    IF i = 8 THEN 0
    ELSE Bit(a, i) * Bit(b, i) * Pow2(i) + AndFrom(a, b, i + 1)
AndTable == [a \in 0 .. 255 |-> [b \in 0 .. 255 |-> AndFrom(a, b, 0)]]
And8(a, b) == AndTable[a][b]
Or8(a, b) == a + b - And8(a, b)

(* Pixel (x, y) of a memory image, 1 = set.                                *)
Pix(m, x, y) == Bit(m[<<x, y \div 8>>], y % 8)
InCanvas(x, y) == x \in Cols /\ y \in Rows

----------------------------------------------------------------------------
(* The device primitives the class inherits from glcd_Device.  A device    *)
(* value d carries the pixel memory, the cursor and the trace of the call. *)

NoTrace == [gotos |-> {}, nrd |-> 0, nwr |-> 0, dots |-> {}]
Dev(m, c) == [mem |-> m, cx |-> c.x, cy |-> c.y,
              gotos |-> {}, nrd |-> 0, nwr |-> 0, dots |-> {}]

GotoXY(d, x, y) ==
    [d EXCEPT !.cx = x, !.cy = y, !.gotos = @ \cup {y}]

(* The byte under the cursor. A read leaves the cursor on the column it    *)
(* read, so that the write that follows lands on that same column.         *)
ReadByte(d) ==
    IF InCanvas(d.cx, d.cy) THEN d.mem[<<d.cx, d.cy \div 8>>] ELSE 0
ReadData(d) == [d EXCEPT !.nrd = @ + 1]

(* Write one vertical byte at the cursor and advance x. On a page boundary *)
(* the byte replaces the page byte; off a page boundary the byte spans two *)
(* pages and its bits are ORed into both.                                  *)
WriteMem(m, x, y, data) ==
    LET off == y % 8
        p == y \div 8
    IN  IF ~InCanvas(x, y) THEN m
        ELSE IF off = 0 THEN [m EXCEPT ![<<x, p>>] = data]
        ELSE LET m1 == [m EXCEPT ![<<x, p>>] = Or8(@, Shl8(data, off))]
             IN  IF p + 1 \in Pages
                 THEN [m1 EXCEPT ![<<x, p + 1>>] = Or8(@, Shr8(data, 8 - off))]
                 ELSE m1
WriteData(d, data) ==
    [d EXCEPT !.mem = WriteMem(d.mem, d.cx, d.cy, data),
              !.cx = U8(d.cx + 1),
              !.nwr = @ + 1]

(* Set (BLACK) or clear one pixel, leaving the rest of its byte alone; a   *)
(* pixel off the canvas is not stored.  PaintDots is SetDot on each pixel  *)
(* of a set, all with one color (the order of such calls does not matter). *)
RECURSIVE DotMaskFrom(_, _, _)
DotMaskFrom(S, c, b) ==
    IF b = 8 THEN 0
    ELSE (IF <<c[1], c[2] * 8 + b>> \in S THEN Pow2(b) ELSE 0)
         + DotMaskFrom(S, c, b + 1)
PaintDots(d, S, color) ==
    [d EXCEPT
       !.mem = [c \in Cells |->
                  LET k == DotMaskFrom(S, c, 0)
                  IN  IF color = BLACK THEN Or8(d.mem[c], k)
                      ELSE And8(d.mem[c], Not8(k))],
       !.dots = @ \cup S]
SetDot(d, x, y, color) == PaintDots(d, {<<x, y>>}, color)

(* Bits of page p whose rows lie in y1 .. y2.                              *)
RECURSIVE RowMaskFrom(_, _, _, _)
RowMaskFrom(p, y1, y2, b) ==
    IF b = 8 THEN 0
    ELSE (IF p * 8 + b >= y1 /\ p * 8 + b <= y2 THEN Pow2(b) ELSE 0)
         + RowMaskFrom(p, y1, y2, b + 1)
RowMask(p, y1, y2) == RowMaskFrom(p, y1, y2, 0)

(* Set every pixel of the closed box [x1, x2] x [y1, y2] to color.         *)
SetPixels(d, x1, y1, x2, y2, color) ==
    [d EXCEPT
       !.mem = [c \in Cells |->
                  IF c[1] >= x1 /\ c[1] <= x2
                  THEN LET k == RowMask(c[2], y1, y2)
                       IN  IF color = BLACK THEN Or8(d.mem[c], k)
                           ELSE And8(d.mem[c], Not8(k))
                  ELSE d.mem[c]],
       !.dots = @ \cup {<<x, y>> : x \in x1 .. x2, y \in y1 .. y2}]

----------------------------------------------------------------------------
(* glcd::InvertRect                                                        *)

(* Flip the masked bits of a page byte and keep the others.                *)
InvertMergeKeepsNothing(data, mask) == And8(Not8(data), mask)
InvertMerge(data, mask) ==
    LET tmpData == Not8(data)
    IN  Or8(And8(tmpData, mask), And8(data, Not8(mask)))

(* One pass over the columns x .. x+width of the cursor's page: read,      *)
(* flip the masked bits, write back.                                       *)
RECURSIVE InvertColumns(_, _, _, _)
InvertColumns(d, i, width, mask) ==
    IF i > width THEN d
    ELSE InvertColumns(WriteData(ReadData(d), InvertMerge(ReadByte(d), mask)),
                       U8(i + 1), width, mask)

(* The full pages: while (h+8 <= height) { h += 8; y += 8; ... ~data ... } *)
RECURSIVE InvertFullPages(_, _, _, _, _, _)
InvertFullPages(d, x, y, h, width, height) ==
    IF h + 8 <= height
    THEN InvertFullPages(
             InvertColumns(GotoXY(d, x, U8(y + 8)), 0, width, 255),
             x, U8(y + 8), U8(h + 8), width, height)
    ELSE [d |-> d, y |-> y, h |-> h]

(* height++: the region is height+1 rows tall.                             *)
InvertHeightNoIncrement(height0) == height0
InvertHeight(height0) == U8(height0 + 1)

(* Page-aligned y of the first page touched.                               *)
InvertTopYUnaligned(y0) == y0
InvertTopY(y0) == U8(y0 - (y0 % 8))

InvertRect(d, x, y0, width, height0) ==
    LET height == InvertHeight(height0)
        pageOffset == y0 % 8
        y == InvertTopY(y0)
        inPage == height < 8 - pageOffset
        mask0 == IF inPage THEN Shr8(255, 8 - height) ELSE 255
        h0 == IF inPage THEN height ELSE 8 - pageOffset
        mask == Shl8(mask0, pageOffset)
        top == InvertColumns(GotoXY(d, x, y), 0, width, mask)
        full == InvertFullPages(top, x, y, h0, width, height)
    IN  IF full.h < height
        THEN InvertColumns(GotoXY(full.d, x, U8(full.y + 8)), 0, width,
                           Not8(Shl8(255, height - full.h)))
        ELSE full.d

----------------------------------------------------------------------------
(* glcd::ClearPage, glcd::ClearScreen                                      *)

RECURSIVE WriteRun(_, _, _)
WriteRun(d, length, data) ==
    IF length = 0 THEN d ELSE WriteRun(WriteData(d, data), length - 1, data)

ClearPage(d, page, startX, length0, color) ==
    LET length == IF startX + length0 > DISPLAY_WIDTH
                  THEN U8(DISPLAY_WIDTH - startX) ELSE length0
    IN  WriteRun(GotoXY(d, startX, U8(page * 8)), length, color)

ClearFullPage(d, page, color) == ClearPage(d, page, 0, DISPLAY_WIDTH, color)

(* for (page = 0; page < 8; page++): the 8 is the page count of the 64-row *)
(* panel, DISPLAY_HEIGHT/8, and scales with the canvas here.               *)
RECURSIVE ClearFrom(_, _, _)
ClearFrom(d, page, color) ==
    IF page < DISPLAY_HEIGHT \div 8
    THEN ClearFrom(ClearFullPage(d, page, color), page + 1, color)
    ELSE d
ClearScreen(d, color) == ClearFrom(d, 0, color)

----------------------------------------------------------------------------
(* glcd::SetDisplayMode: r.d is the device afterwards, r.Inverted the flag *)

SetDisplayModeFlagOnly(d, inv, invert) ==
    [d |-> d, Inverted |-> invert]
SetDisplayMode(d, inv, invert) ==
    IF inv # invert
    THEN [d |-> InvertRect(d, 0, 0, U8(DISPLAY_WIDTH - 1), U8(DISPLAY_HEIGHT - 1)),
          Inverted |-> invert]
    ELSE [d |-> d, Inverted |-> inv]

----------------------------------------------------------------------------
(* glcd::DrawHLine, DrawVLine, FillRect, DrawRect                          *)

DrawVLine(d, x, y, height, color) == SetPixels(d, x, y, x, U8(y + height), color)
DrawHLine(d, x, y, width, color) == SetPixels(d, x, y, U8(x + width), y, color)

FillRectExclusive(d, x, y, width, height, color) ==
    SetPixels(d, x, y, U8(x + width) - 1, U8(y + height) - 1, color)
FillRect(d, x, y, width, height, color) ==
    SetPixels(d, x, y, U8(x + width), U8(y + height), color)

DrawRect(d, x, y, width, height, color) ==
    LET top == DrawHLine(d, x, y, width, color)
        bottom == DrawHLine(top, x, U8(y + height), width, color)
        left == DrawVLine(bottom, x, y, height, color)
    IN  DrawVLine(left, U8(x + width), y, height, color)

----------------------------------------------------------------------------
(* glcd::DrawBitmap.  A bitmap is [width, height, data]: the two header    *)
(* bytes and the page-major data bytes that follow them in program memory. *)

BitmapPages(height) == (height + 7) \div 8
ReadPgmData(bitmap, k) == bitmap.data[k]

(* Row r (0-based) of column i of the bitmap, 1 = set.                      *)
BitmapBit(bitmap, i, r) ==
    Bit(bitmap.data[(r \div 8) * bitmap.width + i + 1], r % 8)

(* The byte written for a data byte: as is for BLACK, complemented else.   *)
BlitByteIgnoresColor(displayData, color) == displayData
BlitByte(displayData, color) ==
    IF color = BLACK THEN displayData ELSE Not8(displayData)

(* The inner loop: width bytes of page row j, from data index k on.        *)
RECURSIVE BlitRow(_, _, _, _, _)
BlitRow(d, bitmap, i, k, color) ==
    IF i < bitmap.width
    THEN BlitRow(WriteData(d, BlitByte(ReadPgmData(bitmap, k), color)),
                 bitmap, U8(i + 1), k + 1, color)
    ELSE d

RECURSIVE BlitPages(_, _, _, _, _, _)
BlitPages(d, bitmap, x, y, j, color) ==
    IF j < bitmap.height \div 8
    THEN BlitPages(BlitRow(GotoXY(d, x, U8(y + j * 8)), bitmap, 0,
                           j * bitmap.width + 1, color),
                   bitmap, x, y, U8(j + 1), color)
    ELSE d

(* BITMAP_FIX: clear the background first when y or height is off a page   *)
(* boundary.                                                               *)
NeedsPreClear(y, height) == (y % 8 # 0) \/ (height % 8 # 0)

DrawBitmap(d, bitmap, x, y, color) ==
    LET width == bitmap.width
        height == bitmap.height
        cleared == IF NeedsPreClear(y, height)
                   THEN FillRect(d, x, y, width, height, WHITE)
                   ELSE d
    IN  BlitPages(cleared, bitmap, x, y, 0, color)

----------------------------------------------------------------------------
(* glcd::DrawLine (Bresenham)                                              *)

absDiff(x, y) == IF x > y THEN x - y ELSE y - x

(* The pixels the loop passes to SetDot.                                   *)
RECURSIVE LineLoop(_, _, _, _, _, _, _, _)
LineLoop(x, x2, y, error, deltax, deltay, ystep, steep) ==
    IF x <= x2
    THEN LET dot == IF steep THEN <<y, x>> ELSE <<x, y>>
             e1 == S8(error - deltay)
         IN  {dot} \cup
             (IF e1 < 0
              THEN LineLoop(U8(x + 1), x2, U8(y + ystep), S8(e1 + deltax),
                            deltax, deltay, ystep, steep)
              ELSE LineLoop(U8(x + 1), x2, y, e1, deltax, deltay, ystep, steep))
    ELSE {}

(* The endpoints after the steep transposition, ordered by increasing x.   *)
OrderEndsNoSwap(p) == p
OrderEnds(p) ==
    IF p.x1 > p.x2
    THEN [x1 |-> p.x2, y1 |-> p.y2, x2 |-> p.x1, y2 |-> p.y1]
    ELSE p

LinePoints(ax1, ay1, ax2, ay2) ==
    LET cx1 == IF ax1 >= DISPLAY_WIDTH THEN 0 ELSE ax1
        cx2 == IF ax2 >= DISPLAY_WIDTH THEN 0 ELSE ax2
        cy1 == IF ay1 >= DISPLAY_HEIGHT THEN 0 ELSE ay1
        cy2 == IF ay2 >= DISPLAY_HEIGHT THEN 0 ELSE ay2
        steep == absDiff(cy1, cy2) > absDiff(cx1, cx2)
        t == IF steep THEN [x1 |-> cy1, y1 |-> cx1, x2 |-> cy2, y2 |-> cx2]
             ELSE [x1 |-> cx1, y1 |-> cy1, x2 |-> cx2, y2 |-> cy2]
        p == OrderEnds(t)
        deltax == U8(p.x2 - p.x1)
        deltay == absDiff(p.y2, p.y1)
        error == S8(deltax \div 2)
        ystep == IF p.y1 < p.y2 THEN 1 ELSE -1
    IN  LineLoop(p.x1, p.x2, p.y1, error, deltax, deltay, ystep, steep)

DrawLine(d, x1, y1, x2, y2, color) ==
    PaintDots(d, LinePoints(x1, y1, x2, y2), color)

----------------------------------------------------------------------------
(* glcd::DrawRoundRect, glcd::DrawCircle                                   *)

S16(v) == ((v + 32768) % 65536) - 32768

(* The eight pixels one step of the corner loop passes to SetDot.          *)
CornerDots(x, y, width, height, radius, x1, y1) ==
    {<<U8(x + radius - x1), U8(y + radius - y1)>>,
     <<U8(x + radius - y1), U8(y + radius - x1)>>,
     <<U8(x + width - radius + x1), U8(y + radius - y1)>>,
     <<U8(x + width - radius + y1), U8(y + radius - x1)>>,
     <<U8(x + width - radius + x1), U8(y + height - radius + y1)>>,
     <<U8(x + width - radius + y1), U8(y + height - radius + x1)>>,
     <<U8(x + radius - x1), U8(y + height - radius + y1)>>,
     <<U8(x + radius - y1), U8(y + height - radius + x1)>>}

(* The corner loop: x1 and y1 are uint8_t, tSwitch is int16_t.  CornerStep *)
(* is the end of one iteration; CornerLoop is the set of (x1, y1) pairs    *)
(* visited while (x1 <= y1), evaluated in runs of 16 iterations to keep    *)
(* the evaluation shallow (y1-- on y1 = 0 wraps to 255 and the loop then   *)
(* runs for some 180 iterations).                                          *)
CornerStates == (0 .. 255) \X (0 .. 255) \X (-32768 .. 32767)
CornerStep(s) ==
    LET x1 == s[1]
        y1 == s[2]
        tSwitch == s[3]
    IN  IF tSwitch < 0
        THEN <<U8(x1 + 1), y1, S16(tSwitch + (4 * x1 + 6))>>
        ELSE <<U8(x1 + 1), U8(y1 - 1), S16(tSwitch + (4 * (x1 - y1) + 10))>>

CornerRun[n \in 0 .. 16, s \in CornerStates] ==
    IF n = 0 \/ ~(s[1] <= s[2]) THEN <<s, {}>>
    ELSE LET r == CornerRun[n - 1, CornerStep(s)]
         IN  <<r[1], {<<s[1], s[2]>>} \cup r[2]>>

CornerLoop[s \in CornerStates] ==
    IF s[1] <= s[2]
    THEN LET r == CornerRun[16, s] IN r[2] \cup CornerLoop[r[1]]
    ELSE {}

DrawRoundRect(d, x, y, width, height, radius, color) ==
    LET steps == CornerLoop[<<0, radius, S16(3 - 2 * radius)>>]
        arcs == PaintDots(d, UNION {CornerDots(x, y, width, height, radius, q[1], q[2]) :
                                       q \in steps}, color)
        top == DrawHLine(arcs, U8(x + radius), y, U8(width - 2 * radius), color)
        bottom == DrawHLine(top, U8(x + radius), U8(y + height),
                            U8(width - 2 * radius), color)
        left == DrawVLine(bottom, x, U8(y + radius), U8(height - 2 * radius), color)
    IN  DrawVLine(left, U8(x + width), U8(y + radius), U8(height - 2 * radius), color)

DrawCircle(d, xCenter, yCenter, radius, color) ==
    DrawRoundRect(d, U8(xCenter - radius), U8(yCenter - radius),
                  U8(2 * radius), U8(2 * radius), radius, color)

----------------------------------------------------------------------------
(* glcd::FillCircle                                                        *)

(* The four chords drawn for the perimeter point (x, y).                   *)
ChordsOneSided(d, x0, y0, x, y, color) ==
    LET a == DrawLine(d, U8(x0 + x), U8(y0 + y), U8(x0 + x), U8(y0 - y), color)
        b == DrawLine(a, U8(x0 - x), U8(y0 + y), U8(x0 - x), U8(y0 - y), color)
    IN  DrawLine(b, U8(x0 + y), U8(y0 + x), U8(y + x0), U8(y0 - x), color)
Chords(d, x0, y0, x, y, color) ==
    LET a == DrawLine(d, U8(x0 + x), U8(y0 + y), U8(x0 + x), U8(y0 - y), color)
        b == DrawLine(a, U8(x0 - x), U8(y0 + y), U8(x0 - x), U8(y0 - y), color)
        c == DrawLine(b, U8(x0 + y), U8(y0 + x), U8(y + x0), U8(y0 - x), color)
    IN  DrawLine(c, U8(x0 - y), U8(y0 + x), U8(x0 - y), U8(y0 - x), color)

RECURSIVE FillLoop(_, _, _, _, _, _, _, _, _)
FillLoop(d, x0, y0, x, y, f, ddF_x, ddF_y, color) ==
    IF x < y
    THEN LET dec == f >= 0
             y1 == IF dec THEN U8(y - 1) ELSE y
             ddy1 == IF dec THEN S16(ddF_y + 2) ELSE ddF_y
             f1 == IF dec THEN S16(f + ddy1) ELSE f
             x1 == U8(x + 1)
             ddx1 == S16(ddF_x + 2)
             f2 == S16(f1 + ddx1)
         IN  FillLoop(Chords(d, x0, y0, x1, y1, color), x0, y0, x1, y1,
                      f2, ddx1, ddy1, color)
    ELSE d

FillCircle(d, x0, y0, radius, color) ==
    LET seed == DrawLine(d, x0, U8(y0 - radius), x0, U8(y0 + radius), color)
    IN  FillLoop(seed, x0, y0, 0, radius, S16(1 - radius), 1, S16(-2 * radius), color)

----------------------------------------------------------------------------
(* Start-up canvases and the calls under test.                             *)

Canvas(a, b) == [c \in Cells |-> IF (c[1] + c[2]) % 2 = 0 THEN a ELSE b]
AllWhite == Canvas(WHITE, WHITE)
AllBlack == Canvas(BLACK, BLACK)
Mixed == Canvas(165, 60)
ByteSamples == {0, 255, 165, 60}
SampleCanvases == {Canvas(a, b) : a \in ByteSamples, b \in ByteSamples}
Modes == {NON_INVERTED, INVERTED}

MaxBitmapWidth == 2
MaxBitmapHeight == 16
MaxRadius == 3

(* Regions that lie inside the canvas.                                     *)
InvertReqs ==
    {[op |-> "InvertRect", x |-> x, y |-> y, width |-> w, height |-> h] :
        x \in Cols, y \in Rows, w \in Cols, h \in Rows}
RectOk(r) == r.x + r.width < DISPLAY_WIDTH /\ r.y + r.height < DISPLAY_HEIGHT

RectReqs ==
    {[op |-> o, x |-> x, y |-> y, width |-> w, height |-> h, color |-> BLACK] :
        o \in {"DrawRect", "FillRect"}, x \in Cols, y \in Rows, w \in Cols, h \in Rows}

(* Bitmaps: every size up to the bounds, filled with a pattern that       *)
(* differs from byte to byte and mixes set and clear bits.                 *)
BitmapFill(k) == (k * 89 + 53) % 256
Bitmap(w, h) ==
    [width |-> w, height |-> h,
     data |-> [k \in 1 .. w * BitmapPages(h) |-> BitmapFill(k)]]
Bitmaps ==
    {Bitmap(w, h) : w \in 1 .. MaxBitmapWidth, h \in 1 .. MaxBitmapHeight}
BitmapReqs ==
    {[op |-> "DrawBitmap", bitmap |-> b, x |-> x, y |-> y, color |-> c] :
        b \in Bitmaps, x \in Cols, y \in Rows, c \in Colors}
(* The bitmap lies inside the canvas, and so does the box the pre-clear    *)
(* fills when it fires.                                                    *)
BitmapOk(r) ==
    /\ r.x + r.bitmap.width <= DISPLAY_WIDTH
    /\ r.y + r.bitmap.height <= DISPLAY_HEIGHT
    /\ NeedsPreClear(r.y, r.bitmap.height) =>
          /\ r.x + r.bitmap.width < DISPLAY_WIDTH
          /\ r.y + r.bitmap.height < DISPLAY_HEIGHT

LineReqs ==
    {[op |-> "DrawLine", x1 |-> a, y1 |-> b, x2 |-> c, y2 |-> e, color |-> BLACK] :
        a \in Cols, b \in Rows, c \in Cols, e \in Rows}

CircleReqs(name) ==
    {[op |-> name, x |-> x, y |-> y, radius |-> r, color |-> c] :
        x \in Cols, y \in Rows, r \in 0 .. MaxRadius, c \in Colors}
CircleOk(r) ==
    /\ r.x - r.radius >= 0 /\ r.x + r.radius < DISPLAY_WIDTH
    /\ r.y - r.radius >= 0 /\ r.y + r.radius < DISPLAY_HEIGHT

ClearPageReqs ==
    {[op |-> "ClearPage", page |-> p, startX |-> x, length |-> n, color |-> c] :
        p \in Pages, x \in Cols, n \in 0 .. DISPLAY_WIDTH, c \in Colors}
ClearScreenReqs == {[op |-> "ClearScreen", color |-> c] : c \in Colors}
ModeReqs == {[op |-> "SetDisplayMode"]}

NoCall == [op |-> "none"]

(* The state after construction and Init(invert): a canvas, the mode flag, *)
(* and the call that will be made.                                         *)
InitWith(canvases, modes, reqs) ==
    /\ mem \in canvases
    /\ Inverted \in modes
    /\ req \in reqs
    /\ Coord = [x |-> 0, y |-> 0]
    /\ last = NoCall
    /\ pre = mem
    /\ start = [mem |-> mem, Inverted |-> Inverted]
    /\ trace = NoTrace

----------------------------------------------------------------------------
(* One step per call.                                                      *)

Device == Dev(mem, Coord)

Commit(d, call) ==
    /\ mem' = d.mem
    /\ Coord' = [x |-> d.cx, y |-> d.cy]
    /\ trace' = [gotos |-> d.gotos, nrd |-> d.nrd, nwr |-> d.nwr, dots |-> d.dots]
    /\ last' = call
    /\ pre' = mem
    /\ UNCHANGED <<req, start>>

CallInvertRect ==
    /\ req.op = "InvertRect"
    /\ Commit(InvertRect(Device, req.x, req.y, req.width, req.height), req)
    /\ UNCHANGED Inverted

CallSetDisplayMode ==
    /\ req.op = "SetDisplayMode"
    /\ \E invert \in Modes :
          LET r == SetDisplayMode(Device, Inverted, invert)
          IN  /\ Commit(r.d, [op |-> "SetDisplayMode", invert |-> invert])
              /\ Inverted' = r.Inverted

CallClearPage ==
    /\ req.op = "ClearPage"
    /\ Commit(ClearPage(Device, req.page, req.startX, req.length, req.color), req)
    /\ UNCHANGED Inverted

CallClearScreen ==
    /\ req.op = "ClearScreen"
    /\ Commit(ClearScreen(Device, req.color), req)
    /\ UNCHANGED Inverted

CallDrawBitmap ==
    /\ req.op = "DrawBitmap"
    /\ Commit(DrawBitmap(Device, req.bitmap, req.x, req.y, req.color), req)
    /\ UNCHANGED Inverted

CallDrawLine ==
    /\ req.op = "DrawLine"
    /\ Commit(DrawLine(Device, req.x1, req.y1, req.x2, req.y2, req.color), req)
    /\ UNCHANGED Inverted

CallDrawRect ==
    /\ req.op = "DrawRect"
    /\ Commit(DrawRect(Device, req.x, req.y, req.width, req.height, req.color), req)
    /\ UNCHANGED Inverted

CallFillRect ==
    /\ req.op = "FillRect"
    /\ Commit(FillRect(Device, req.x, req.y, req.width, req.height, req.color), req)
    /\ UNCHANGED Inverted

CallDrawCircle ==
    /\ req.op = "DrawCircle"
    /\ Commit(DrawCircle(Device, req.x, req.y, req.radius, req.color), req)
    /\ UNCHANGED Inverted

CallFillCircle ==
    /\ req.op = "FillCircle"
    /\ Commit(FillCircle(Device, req.x, req.y, req.radius, req.color), req)
    /\ UNCHANGED Inverted

----------------------------------------------------------------------------
(* Specifications: one per group of operations, and the whole class.       *)

InitInvert == InitWith({AllBlack, Mixed}, {NON_INVERTED}, {r \in InvertReqs : RectOk(r)})
NextInvert == CallInvertRect
SpecInvert == InitInvert /\ [][NextInvert]_vars

InitBitmap == InitWith({AllBlack, Mixed}, {NON_INVERTED}, {r \in BitmapReqs : BitmapOk(r)})
NextBitmap == CallDrawBitmap
SpecBitmap == InitBitmap /\ [][NextBitmap]_vars

InitLine == InitWith({Mixed}, {NON_INVERTED}, LineReqs)
NextLine == CallDrawLine
SpecLine == InitLine /\ [][NextLine]_vars

InitRect == InitWith({Mixed}, {NON_INVERTED}, {r \in RectReqs : RectOk(r)})
NextRect == CallDrawRect \/ CallFillRect
SpecRect == InitRect /\ [][NextRect]_vars

InitFillCircle ==
    InitWith({AllWhite, AllBlack, Mixed}, {NON_INVERTED},
             {r \in CircleReqs("FillCircle") : CircleOk(r)})
NextFillCircle == CallFillCircle
SpecFillCircle == InitFillCircle /\ [][NextFillCircle]_vars

InitCircle ==
    InitWith({Mixed}, {NON_INVERTED},
             {r \in CircleReqs("DrawCircle") : CircleOk(r)})
NextCircle == CallDrawCircle
SpecCircle == InitCircle /\ [][NextCircle]_vars

InitMode == InitWith(SampleCanvases, Modes, ModeReqs)
NextMode == CallSetDisplayMode
SpecMode == InitMode /\ [][NextMode]_vars

CoreReqs ==
    {r \in InvertReqs : RectOk(r)} \cup {r \in BitmapReqs : BitmapOk(r)}
        \cup ClearPageReqs \cup ClearScreenReqs \cup ModeReqs
InitCore == InitWith({Mixed}, {NON_INVERTED}, CoreReqs)
NextCore ==
    \/ CallClearPage
    \/ CallClearScreen
    \/ CallInvertRect
    \/ CallSetDisplayMode
    \/ CallDrawBitmap
SpecCore == InitCore /\ [][NextCore]_vars

Init ==
    InitWith({Mixed}, {NON_INVERTED},
             CoreReqs \cup {r \in RectReqs : RectOk(r)}
                 \cup {r \in CircleReqs("DrawCircle") : CircleOk(r)}
                 \cup {r \in CircleReqs("FillCircle") : CircleOk(r)}
                 \cup LineReqs)
Next ==
    \/ NextCore
    \/ CallDrawLine
    \/ CallDrawRect
    \/ CallFillRect
    \/ CallDrawCircle
    \/ CallFillCircle
Spec == Init /\ [][Next]_vars

----------------------------------------------------------------------------
(* Properties.                                                             *)

Called(name) == last.op = name
Complement(m) == [c \in Cells |-> Not8(m[c])]

(* The region of an InvertRect / rectangle call r, as a set of pixels.     *)
Box(r) == {<<x, y>> : x \in r.x .. r.x + r.width, y \in r.y .. r.y + r.height}
InBox(r, x, y) ==
    /\ x >= r.x /\ x <= r.x + r.width
    /\ y >= r.y /\ y <= r.y + r.height
(* The call's region has a partial top page, a full page and a partial     *)
(* bottom page.                                                            *)
ThreePart(r) ==
    /\ r.y % 8 # 0
    /\ (r.y + r.height) % 8 # 7
    /\ (r.y + r.height) \div 8 >= r.y \div 8 + 2

(* C1: InvertRect(x,y,w,h) called twice in succession leaves pixel memory  *)
(* byte for byte as it was before the first call: the second of two        *)
(* consecutive calls with the same region yields the memory the first one  *)
(* started from.                                                           *)
C1_InvertTwiceRestores ==
    [][(Called("InvertRect") /\ last'.op = "InvertRect" /\ last' = last)
          => mem' = pre]_vars

(* Two calls on a three-part region were made and the first changed memory *)
C1_Witness ==
    /\ Called("InvertRect")
    /\ ThreePart(last)
    /\ last.width > 0
    /\ mem = start.mem
    /\ pre # mem

Expected(bitmap, i, r, color) ==
    IF color = BLACK THEN BitmapBit(bitmap, i, r) ELSE 1 - BitmapBit(bitmap, i, r)

(* C3: for a placement off a page boundary (y mod 8 # 0 or height mod 8    *)
(* # 0) and any prior canvas content, after DrawBitmap every pixel of the  *)
(* width by height destination rectangle equals the bitmap bit (BLACK) or  *)
(* its complement (WHITE): nothing bleeds through, no bitmap row is left   *)
(* undrawn.                                                                *)
C3_UnalignedBlitMatchesBitmap ==
    (Called("DrawBitmap") /\ (last.y % 8 # 0 \/ last.bitmap.height % 8 # 0)) =>
        \A i \in 0 .. last.bitmap.width - 1, r \in 0 .. last.bitmap.height - 1 :
            Pix(mem, last.x + i, last.y + r) = Expected(last.bitmap, i, r, last.color)

(* The byte read back at column x of the page that starts at row y.        *)
ReadBack(m, x, y) == ReadByte(GotoXY(Dev(m, Coord), x, y))

(* C4: for a page-aligned placement (y and height multiples of 8) reading  *)
(* back the destination page bytes in page-major order yields the bitmap's *)
(* data bytes for BLACK and their bitwise complement for WHITE, whatever   *)
(* the canvas held before.                                                 *)
C4_AlignedBlitRoundTrip ==
    (Called("DrawBitmap") /\ last.y % 8 = 0 /\ last.bitmap.height % 8 = 0) =>
        \A j \in 0 .. (last.bitmap.height \div 8) - 1, i \in 0 .. last.bitmap.width - 1 :
            ReadBack(mem, last.x + i, last.y + 8 * j) =
                LET b == last.bitmap.data[j * last.bitmap.width + i + 1]
                IN  IF last.color = BLACK THEN b ELSE 255 - b

(* A two-page patterned bitmap drawn WHITE at page 1 over a canvas that    *)
(* held something else there.                                              *)
C4_Witness ==
    /\ Called("DrawBitmap")
    /\ last.y = 8
    /\ last.bitmap.height = 16
    /\ last.bitmap.width = MaxBitmapWidth
    /\ last.color = WHITE
    /\ last.bitmap.data[1] # last.bitmap.data[2]
    /\ pre # mem

(* C5: DrawLine(x1,y1,x2,y2) and DrawLine(x2,y2,x1,y1) pass the same set   *)
(* of pixels to SetDot, and that set contains both endpoints, for all      *)
(* endpoints inside the canvas.                                            *)
C5_LineDirectionIndependent ==
    (Called("DrawLine") /\ InCanvas(last.x1, last.y1) /\ InCanvas(last.x2, last.y2)) =>
        /\ trace.dots = LinePoints(last.x2, last.y2, last.x1, last.y1)
        /\ <<last.x1, last.y1>> \in trace.dots
        /\ <<last.x2, last.y2>> \in trace.dots

(* A steep line drawn from its far end: both swaps of the routine happen.  *)
C5_Witness ==
    /\ Called("DrawLine")
    /\ last.x1 > last.x2
    /\ last.y1 > last.y2 + (last.x1 - last.x2)
    /\ Cardinality(trace.dots) = last.y1 - last.y2 + 1

(* The pixels of a box that lie on its border.                             *)
Border(r) ==
    {q \in Box(r) : q[1] \in {r.x, r.x + r.width} \/ q[2] \in {r.y, r.y + r.height}}
(* The outermost pixels of a pixel set: those in its extreme rows/columns. *)
Least(V) == CHOOSE v \in V : \A w \in V : v <= w
Greatest(V) == CHOOSE v \in V : \A w \in V : v >= w
Outermost(S) ==
    LET xs == {q[1] : q \in S}
        ys == {q[2] : q \in S}
        xEnds == {Least(xs), Greatest(xs)}
        yEnds == {Least(ys), Greatest(ys)}
    IN  {q \in S : q[1] \in xEnds \/ q[2] \in yEnds}
(* Memory after painting the pixel set S with color over m.                *)
Painted(m, S, color) ==
    \A x \in Cols, y \in Rows :
        Pix(mem, x, y) = IF <<x, y>> \in S THEN (IF color = BLACK THEN 1 ELSE 0)
                         ELSE Pix(m, x, y)

Offsets(S, x0, y0) == {<<q[1] - x0, q[2] - y0>> : q \in S}
C7_FillCircleSymmetric ==
    Called("FillCircle") =>
        LET S == Offsets(trace.dots, last.x, last.y)
        IN  \A q \in S : /\ <<-q[1], q[2]>> \in S
                         /\ <<q[1], -q[2]>> \in S
                         /\ <<q[2], q[1]>> \in S

(* A filled circle of the largest radius: more than its two diameters.     *)
C7_Witness ==
    /\ Called("FillCircle")
    /\ last.radius = MaxRadius
    /\ Cardinality(trace.dots) > 4 * MaxRadius + 1

(* C8: SetDisplayMode(v) changes pixel memory iff v differs from the       *)
(* stored flag: then every pixel of the canvas is flipped exactly once     *)
(* (every page byte is read once, written once, and ends complemented) and *)
(* the flag becomes v; otherwise pixel memory is neither read nor written  *)
(* and the flag stays. Hence memory is the start-up content while the flag *)
(* has its start-up value and the full complement otherwise.               *)
C8_ModeAndMemoryConsistent ==
    /\ [][last'.op = "SetDisplayMode" =>
            IF last'.invert # Inverted
            THEN /\ mem' = Complement(mem)
                 /\ Inverted' = last'.invert
                 /\ trace'.nrd = Cardinality(Cells)
                 /\ trace'.nwr = Cardinality(Cells)
            ELSE /\ mem' = mem
                 /\ Inverted' = Inverted
                 /\ trace'.nrd = 0
                 /\ trace'.nwr = 0]_vars
    /\ [](/\ Inverted = start.Inverted => mem = start.mem
          /\ Inverted # start.Inverted => mem = Complement(start.mem))

(* The mode was changed and then set again to the same value.              *)
C8_Witness ==
    /\ Called("SetDisplayMode")
    /\ last.invert = Inverted
    /\ Inverted # start.Inverted
    /\ mem = Complement(start.mem)
    /\ mem # start.mem
    /\ trace.nwr = 0

(* C9 as stated: every GotoXY call of ClearPage, ClearScreen, InvertRect,  *)
(* SetDisplayMode and DrawBitmap passes a y that is a multiple of 8.       *)
C9_EveryGotoPageAligned ==
    \A y \in trace.gotos : y % 8 = 0

(* C9 amended: ClearPage, ClearScreen, InvertRect and SetDisplayMode pass  *)
(* GotoXY a multiple of 8; DrawBitmap passes y + 8j for its own y, which   *)
(* is a multiple of 8 exactly when that y is.                              *)
C9_GotoAlignedExceptBitmap ==
    /\ last.op \in {"ClearPage", "ClearScreen", "InvertRect", "SetDisplayMode"} =>
          \A y \in trace.gotos : y % 8 = 0
    /\ Called("DrawBitmap") =>
          trace.gotos = {last.y + 8 * j : j \in 0 .. (last.bitmap.height \div 8) - 1}

(* An InvertRect from an unaligned y over three pages.                     *)
C9_Witness ==
    /\ Called("InvertRect")
    /\ ThreePart(last)
    /\ Cardinality(trace.gotos) >= 3

(* C10: for every radius from 0 upward and every centre whose box          *)
(* [xc-r, xc+r] by [yc-r, yc+r] is inside the canvas, every pixel that     *)
(* DrawCircle paints lies in that box and the painted set reaches all four *)
(* sides of it (a single pixel for r = 0).                                 *)
C10_CircleFitsItsBox ==
    Called("DrawCircle") =>
        /\ \A q \in trace.dots :
              /\ q[1] >= last.x - last.radius /\ q[1] <= last.x + last.radius
              /\ q[2] >= last.y - last.radius /\ q[2] <= last.y + last.radius
        /\ \E q \in trace.dots : q[1] = last.x - last.radius
        /\ \E q \in trace.dots : q[1] = last.x + last.radius
        /\ \E q \in trace.dots : q[2] = last.y - last.radius
        /\ \E q \in trace.dots : q[2] = last.y + last.radius

(* C11: for every placement, aligned or not, DrawBitmap leaves unchanged   *)
(* every pixel outside the destination rectangle of columns                *)
(* [x, x+width-1] and rows [y, y+height-1]; in particular column x+width   *)
(* and row y+height keep what they held before the call.                   *)
InDestination(r, x, y) ==
    /\ x >= r.x /\ x <= r.x + r.bitmap.width - 1
    /\ y >= r.y /\ y <= r.y + r.bitmap.height - 1
C11_BitmapLeavesOutsideUnchanged ==
    Called("DrawBitmap") =>
        \A x \in Cols, y \in Rows :
            ~InDestination(last, x, y) => Pix(mem, x, y) = Pix(pre, x, y)

====
